---- MODULE Spec2Model ----
(***************************************************************************)
(* Model of the product-search backend (src/backend.py): the two Chroma    *)
(* collections "products_text" and "products_image", the three read        *)
(* routes (/products, /search, /image-search) and the three mutation       *)
(* routes (/insert, /update, /delete).                                     *)
(*                                                                         *)
(* Python values are encoded as TLA+ strings: a str is itself, and None,   *)
(* True and False are the tagged strings below.  A dict is a function      *)
(* whose DOMAIN is its key set.  Embeddings and distances belong to the    *)
(* external models and index: a nearest-neighbour query is modelled as     *)
(* returning any arrangement of n_results distinct records of the          *)
(* collection, and similarity_score is left out of the result entries.     *)
(* The vector store is external: get returns the stored metadatas of the   *)
(* ids it knows, upsert replaces the entry of an id, delete removes it.    *)
(***************************************************************************)
EXTENDS Integers, Sequences, FiniteSets, TLC

VARIABLES text, image, last, nreq, thr, base

vars == <<text, image, last, nreq, thr, base>>

-----------------------------------------------------------------------------
(* Bounds *)

\* requests served in one run of Spec
MaxOps == 2
\* largest top_k a search request asks for
MaxTopK == 2
\* largest offset / limit of a product listing
MaxPage == 2

-----------------------------------------------------------------------------
(* Python values *)

None == "<None>"
PyTrue == "<True>"
PyFalse == "<False>"

\* bool(v)
Truthy(v) == v \notin {None, "", PyFalse}

\* a or b
PyOr(a, b) == IF Truthy(a) THEN a ELSE b

\* {}
EmptyDict == [k \in {} |-> None]

\* d.get(k)
Get(d, k) == IF k \in DOMAIN d THEN d[k] ELSE None

\* d.update(p)
DictUpdate(d, p) ==
    [k \in (DOMAIN d) \cup (DOMAIN p) |-> IF k \in DOMAIN p THEN p[k] ELSE d[k]]

\* str(v) inside an f-string
PyStr(v) == IF v = None THEN "None" ELSE v

\* f"text-{prod_id}"
TextKey(prod_id) == "text-" \o PyStr(prod_id)

HydrateKeys == {"name", "description", "images", "specifications", "id", "oem_id", "deleted"}

-----------------------------------------------------------------------------
(* str.strip() and str.split(",")  *)

RECURSIVE LStrip(_)
LStrip(s) ==
    IF Len(s) > 0 /\ SubSeq(s, 1, 1) = " " THEN LStrip(SubSeq(s, 2, Len(s))) ELSE s

RECURSIVE RStrip(_)
RStrip(s) ==
    IF Len(s) > 0 /\ SubSeq(s, Len(s), Len(s)) = " "
    THEN RStrip(SubSeq(s, 1, Len(s) - 1)) ELSE s

Strip(s) == RStrip(LStrip(s))

\* s.split(","): the pieces between commas, empty pieces included
RECURSIVE SplitFrom(_, _, _)
SplitFrom(s, start, i) ==
    IF i > Len(s) THEN <<SubSeq(s, start, Len(s))>>
    ELSE IF SubSeq(s, i, i) = ","
         THEN <<SubSeq(s, start, i - 1)>> \o SplitFrom(s, i + 1, i + 1)
         ELSE SplitFrom(s, start, i + 1)

SplitComma(s) == SplitFrom(s, 1, 1)

RECURSIVE StripNonEmpty(_)
StripNonEmpty(parts) ==
    IF parts = <<>> THEN <<>>
    ELSE (IF Strip(Head(parts)) # "" THEN <<Strip(Head(parts))>> ELSE <<>>)
         \o StripNonEmpty(Tail(parts))

parse_images_from_meta(meta) ==
    LET img_str == Get(meta, "images")
    IN IF ~Truthy(img_str) THEN <<>> ELSE StripNonEmpty(SplitComma(PyStr(img_str)))

-----------------------------------------------------------------------------
(* Response Builder *)

\* The item of one hit: <<>> stands for a returned None, <<item>> for a dict.
build_result_from_meta(meta, doc, rank) ==
    IF Truthy(Get(meta, "deleted")) THEN <<>>
    ELSE << [id |-> Get(meta, "id"),
             oem_id |-> Get(meta, "oem_id"),
             name |-> Get(meta, "name"),
             description |-> PyOr(Get(meta, "description"), PyOr(doc, "")),
             images |-> parse_images_from_meta(meta),
             specifications |-> Get(meta, "specifications"),
             rank |-> rank] >>


\* concatenation of the per-hit items, in hit order: the list `out`
RECURSIVE Flatten(_)
Flatten(items) ==
    IF items = <<>> THEN <<>> ELSE Head(items) \o Flatten(Tail(items))

\* positions of the hits that contributed an item to `out`, in order
Kept(items) ==
    LET F[i \in 0..Len(items)] ==
            IF i = 0 THEN <<>>
            ELSE IF items[i] # <<>> THEN Append(F[i - 1], i) ELSE F[i - 1]
    IN F[Len(items)]

\* collection.get(ids=[key]): the "metadatas" list of the answer
CollGet(coll, key) ==
    IF key \in DOMAIN coll THEN <<coll[key].metadata>> ELSE <<>>

\* faulty variant of Upsert: the write is not confined to the given id
Upsert_everywhere(coll, key, doc, meta) ==
    [k \in (DOMAIN coll) \cup {key} |-> [document |-> doc, metadata |-> meta]]

\* collection.upsert(ids=[key], documents=[doc], metadatas=[meta], ...)
Upsert(coll, key, doc, meta) ==
    [k \in (DOMAIN coll) \cup {key} |->
        IF k = key THEN [document |-> doc, metadata |-> meta] ELSE coll[k]]

\* faulty variant of Delete: nothing is removed
Delete_keeps(coll, key) == coll

\* collection.delete(ids=[key])
Delete(coll, key) == [k \in (DOMAIN coll) \ {key} |-> coll[k]]

\* the sequences of n distinct elements of S
RECURSIVE Arrangements(_, _)
Arrangements(S, n) ==
    IF n = 0 THEN {<<>>}
    ELSE UNION {{<<x>> \o a : a \in Arrangements(S \ {x}, n - 1)} : x \in S}

Min(a, b) == IF a < b THEN a ELSE b

\* collection.query(n_results=top_k): the keys of some top_k records, nearest
\* first; their documents and metadatas are read from the collection
QueryHits(coll, top_k) ==
    Arrangements(DOMAIN coll, Min(top_k, Cardinality(DOMAIN coll)))

\* collection.get(offset=, limit=): a page of the records in store order
PageHits(coll, offset, limit) ==
    {SubSeq(a, offset + 1, Min(offset + limit, Len(a))) :
        a \in Arrangements(DOMAIN coll, Cardinality(DOMAIN coll))}

\* /products: the loop over zip(documents, metadatas); no rank is passed
get_all_products_items(hits, coll) ==
    [i \in 1..Len(hits) |->
        build_result_from_meta(coll[hits[i]].metadata, coll[hits[i]].document, None)]

\* /search: the loop over enumerate(zip(metas, docs, dists))
search_text_items(hits, coll) ==
    [i \in 1..Len(hits) |->
        build_result_from_meta(coll[hits[i]].metadata, coll[hits[i]].document, i)]

\* faulty variant of hydrate: the text record's deleted flag is not copied
hydrate_without_deleted(m, coll, lookup_failed) ==
    LET text_res == CollGet(coll, TextKey(Get(m, "id")))
    IN IF ~lookup_failed /\ text_res # <<>> /\ DOMAIN text_res[1] # {}
       THEN DictUpdate(m, [k \in HydrateKeys \ {"deleted"} |-> Get(text_res[1], k)])
       ELSE m

\* faulty variant of hydrate: the hit's own non-empty values are kept
hydrate_image_wins(m, coll, lookup_failed) ==
    LET text_res == CollGet(coll, TextKey(Get(m, "id")))
    IN IF ~lookup_failed /\ text_res # <<>> /\ DOMAIN text_res[1] # {}
       THEN DictUpdate(m, [k \in HydrateKeys |->
                PyOr(Get(m, k), Get(text_res[1], k))])
       ELSE m

\* /image-search: the metadata of one hit after the text-index lookup;
\* lookup_failed is text_collection.get raising
hydrate(m, coll, lookup_failed) ==
    LET prod_id == Get(m, "id")
        text_res == CollGet(coll, TextKey(prod_id))
    IN IF ~lookup_failed /\ text_res # <<>> /\ DOMAIN text_res[1] # {}
       THEN DictUpdate(m, [k \in HydrateKeys |-> Get(text_res[1], k)])
       ELSE m

\* faulty variant of search_image_item: a failed lookup drops the hit
search_image_item_failure_drops(h, i, coll, lookup_failed) ==
    IF Truthy(Get(h.metadata, "deleted")) \/ lookup_failed THEN <<>>
    ELSE build_result_from_meta(hydrate(h.metadata, coll, lookup_failed), h.document, i)

\* faulty variant of search_image_item: a hit without a text record is dropped
search_image_item_requires_text(h, i, coll, lookup_failed) ==
    IF \/ Truthy(Get(h.metadata, "deleted"))
       \/ CollGet(coll, TextKey(Get(h.metadata, "id"))) = <<>>
    THEN <<>>
    ELSE build_result_from_meta(hydrate(h.metadata, coll, lookup_failed), h.document, i)

\* /image-search: one turn of the loop over enumerate(zip(metas, docs, dists))
search_image_item(h, i, coll, lookup_failed) ==
    IF Truthy(Get(h.metadata, "deleted")) THEN <<>>
    ELSE build_result_from_meta(hydrate(h.metadata, coll, lookup_failed), h.document, i)

search_image_items(hits, icoll, coll, fails) ==
    [i \in 1..Len(hits) |-> search_image_item(icoll[hits[i]], i, coll, fails[i])]

-----------------------------------------------------------------------------
(* Mutation Coordinator *)

\* faulty variant of insert_rejected: the deleted flag of the existing record is ignored
insert_rejected_any_record(existing) ==
    existing # <<>> /\ DOMAIN existing[1] # {}

\* /insert: the test that answers "already exists"
insert_rejected(existing) ==
    /\ existing # <<>>
    /\ DOMAIN existing[1] # {}
    /\ ~Truthy(Get(existing[1], "deleted"))

\* /update and /delete: the test that answers "not found"
not_found(existing) == existing = <<>> \/ DOMAIN existing[1] = {}

\* /insert: the metadata of the fresh record
insert_meta(payload) ==
    [k \in {"id", "name", "description", "images", "specifications", "deleted"} |->
        IF k = "deleted" THEN PyFalse ELSE Get(payload, k)]

\* faulty variant of update_meta: only non-empty incoming values overwrite
update_meta_nonempty(existing_meta, payload) ==
    [k \in (DOMAIN existing_meta) \cup (DOMAIN payload) \cup {"deleted"} |->
        IF k = "deleted" THEN PyFalse
        ELSE PyOr(Get(payload, k), Get(existing_meta, k))]

\* faulty variant of update_meta: the flag is not forced, the payload's stays
update_meta_keeps_flag(existing_meta, payload) ==
    DictUpdate(DictUpdate(existing_meta, [k \in {"deleted"} |-> PyFalse]), payload)

\* /update: the metadata written back
update_meta(existing_meta, payload) ==
    DictUpdate(DictUpdate(existing_meta, payload), [k \in {"deleted"} |-> PyFalse])

\* faulty variant of doc_text: the name is preferred to the description
doc_text_name_first(meta) == PyOr(Get(meta, "name"), PyOr(Get(meta, "description"), ""))

\* the embeddable document of a record
doc_text(meta) == PyOr(Get(meta, "description"), PyOr(Get(meta, "name"), ""))

\* POST /insert as one call on a collection: the collection afterwards, what
\* the handler read, and its answer
insert_product_call(payload, coll) ==
    LET prod_id == Get(payload, "id")
        existing == CollGet(coll, TextKey(prod_id))
        meta == insert_meta(payload)
    IN IF ~Truthy(prod_id)
       THEN [text |-> coll, existing |-> <<>>, outcome |-> "id_required"]
       ELSE IF insert_rejected(existing)
       THEN [text |-> coll, existing |-> existing, outcome |-> "exists"]
       ELSE [text |-> Upsert(coll, TextKey(prod_id), doc_text(meta), meta),
             existing |-> existing, outcome |-> "inserted"]

\* POST /update as one call
update_product_call(payload, coll) ==
    LET prod_id == Get(payload, "id")
        existing == CollGet(coll, TextKey(prod_id))
    IN IF ~Truthy(prod_id)
       THEN [text |-> coll, existing |-> <<>>, outcome |-> "id_required"]
       ELSE IF not_found(existing)
       THEN [text |-> coll, existing |-> existing, outcome |-> "not_found"]
       ELSE LET meta == update_meta(existing[1], payload)
            IN [text |-> Upsert(coll, TextKey(prod_id), doc_text(meta), meta),
                existing |-> existing, outcome |-> "updated"]

\* POST /delete as one call
permanent_delete_product_call(payload, coll) ==
    LET prod_id == Get(payload, "id")
        existing == CollGet(coll, TextKey(prod_id))
    IN IF ~Truthy(prod_id)
       THEN [text |-> coll, existing |-> <<>>, outcome |-> "id_required"]
       ELSE IF not_found(existing)
       THEN [text |-> coll, existing |-> existing, outcome |-> "not_found"]
       ELSE [text |-> Delete(coll, TextKey(prod_id)),
             existing |-> existing, outcome |-> "deleted"]

-----------------------------------------------------------------------------
(* The store when the backend starts.  The collections are persistent and  *)
(* are filled by the batch script (src/embed_to_chroma.py) from the        *)
(* product table; a record may since have been flagged deleted in the      *)
(* store.                                                                  *)

Ids == {"p1", "p2"}

\* rows of products.products_info, after the script's normalisation
Row(id) ==
    IF id = "p1"
    THEN [id |-> "p1", oem_id |-> "OEM-1", name |-> "Headset", description |-> "Over-ear",
          images |-> "http://a, http://b", specifications |-> "{}"]
    ELSE [id |-> "p2", oem_id |-> "", name |-> "Speaker", description |-> "",
          images |-> "http://c", specifications |-> ""]

\* the text record the script adds for a row
ingest_text(row) ==
    [document |-> row.name \o ". " \o row.description \o ". Specs: " \o row.specifications,
     metadata |-> [id |-> row.id, oem_id |-> row.oem_id, type |-> "text", name |-> row.name,
                   description |-> row.description, images |-> row.images,
                   specifications |-> row.specifications]]

\* the image record the script adds for one image of a row
ingest_image(row) ==
    [document |-> row.name \o " (image)",
     metadata |-> [id |-> row.id, oem_id |-> row.oem_id, type |-> "image", name |-> row.name,
                   description |-> PyOr(row.description, ""), images |-> row.images,
                   specifications |-> row.specifications]]

\* an entry whose metadata carries deleted=True
Flagged(entry) ==
    [entry EXCEPT !.metadata = DictUpdate(entry.metadata, [deleted |-> PyTrue])]

\* the text collection at start holds, for each id: nothing, the ingested
\* record, or the ingested record flagged deleted
InitText ==
    {[k \in {TextKey(i) : i \in {j \in Ids : c[j] # "absent"}} |->
        LET i == CHOOSE j \in Ids : TextKey(j) = k
        IN IF c[i] = "flagged" THEN Flagged(ingest_text(Row(i))) ELSE ingest_text(Row(i))] :
        c \in [Ids -> {"absent", "live", "flagged"}]}

\* the image collection: the first image of p1, and the image of p2 flagged
\* deleted in its own metadata
InitImage ==
    [k \in {"image-p1-0", "image-p2-0"} |->
        IF k = "image-p1-0" THEN ingest_image(Row("p1"))
        ELSE Flagged(ingest_image(Row("p2")))]

\* an image collection written without denormalized metadata: the first
\* image of p1 with an empty metadata dict, and the image of p2 as ingested
InitImageBare ==
    [k \in {"image-p1-0", "image-p2-0"} |->
        IF k = "image-p1-0"
        THEN [document |-> Row("p1").name \o " (image)", metadata |-> EmptyDict]
        ELSE ingest_image(Row("p2"))]

-----------------------------------------------------------------------------
(* Requests *)

\* the fields a mutation payload carries besides "id"
NameDescBodies ==
    {DictUpdate(n, d) :
        n \in {EmptyDict, [name |-> "Headphones"]},
        d \in {EmptyDict, [description |-> ""], [description |-> "Noise cancelling"]}}

ExtraBodies ==
    {[deleted |-> PyTrue], [oem_id |-> "OEM-9"], [images |-> "http://z"],
     [specifications |-> None]}

Bodies == NameDescBodies \cup ExtraBodies

\* payloads with an id, and the payload without one
Payloads == {DictUpdate([id |-> i], b) : i \in Ids, b \in Bodies} \cup {EmptyDict}

DeletePayloads == {[id |-> i] : i \in Ids} \cup {EmptyDict}

NoRequest ==
    [op |-> "none", payload |-> EmptyDict, existing |-> <<>>, outcome |-> "none",
     hits |-> <<>>, fails |-> <<>>, results |-> <<>>, src |-> <<>>]

\* one thread of the mutation race (used by SpecRace only)
Idle == [pc |-> "idle", op |-> "none", payload |-> EmptyDict, existing |-> <<>>, outcome |-> "none"]

Init ==
    /\ text \in InitText
    /\ image \in {InitImage, InitImageBare}
    /\ last = NoRequest
    /\ nreq = 0
    /\ thr = [t \in {1, 2} |-> Idle]
    /\ base = <<>>

-----------------------------------------------------------------------------
(* The routes, one request served per step *)

Served(r) ==
    /\ nreq < MaxOps
    /\ nreq' = nreq + 1
    /\ last' = r
    /\ UNCHANGED <<image, thr, base>>

Mutation(op, payload, existing, outcome) ==
    [NoRequest EXCEPT !.op = op, !.payload = payload, !.existing = existing,
                      !.outcome = outcome]

Search(op, hits, fails, outcome, items) ==
    [NoRequest EXCEPT !.op = op, !.hits = hits, !.fails = fails, !.outcome = outcome,
                      !.results = Flatten(items), !.src = Kept(items)]

\* POST /insert
insert_product ==
    \E payload \in Payloads :
        LET r == insert_product_call(payload, text)
        IN /\ text' = r.text
           /\ Served(Mutation("insert", payload, r.existing, r.outcome))

\* POST /update
update_product ==
    \E payload \in Payloads :
        LET r == update_product_call(payload, text)
        IN /\ text' = r.text
           /\ Served(Mutation("update", payload, r.existing, r.outcome))

\* POST /delete
permanent_delete_product ==
    \E payload \in DeletePayloads :
        LET r == permanent_delete_product_call(payload, text)
        IN /\ text' = r.text
           /\ Served(Mutation("delete", payload, r.existing, r.outcome))

\* GET /products
get_all_products ==
    \E offset \in 0..(MaxPage - 1), limit \in 1..MaxPage :
        \E hits \in PageHits(text, offset, limit) :
            /\ text' = text
            /\ Served(Search("list", hits, <<>>, "results", get_all_products_items(hits, text)))

\* GET /search
search_text ==
    \/ \* the query is blank after strip()
       /\ text' = text
       /\ Served(Search("search", <<>>, <<>>, "results", <<>>))
    \/ \E top_k \in 1..MaxTopK :
        \E hits \in QueryHits(text, top_k) :
            /\ text' = text
            /\ Served(Search("search", hits, <<>>, "results", search_text_items(hits, text)))

\* POST /image-search
search_image ==
    \/ \* the upload is no image
       /\ text' = text
       /\ Served(Search("image_search", <<>>, <<>>, "invalid_image", <<>>))
    \/ \E top_k \in 1..MaxTopK :
        \E hits \in QueryHits(image, top_k) :
            \E fails \in [1..Len(hits) -> BOOLEAN] :
                /\ text' = text
                /\ Served(Search("image_search", hits, fails, "results",
                                 search_image_items(hits, image, text, fails)))

Next ==
    \/ insert_product
    \/ update_product
    \/ permanent_delete_product
    \/ get_all_products
    \/ search_text
    \/ search_image

Spec == Init /\ [][Next]_vars

-----------------------------------------------------------------------------
(* Two mutation requests served concurrently.  The routes are plain `def`  *)
(* handlers, which the framework runs on worker threads, and they take no  *)
(* lock: each handler first reads the existing entry (text_collection.get) *)
(* and later writes (upsert / delete), and the steps of the two handlers   *)
(* interleave.  base is the text collection before either request.         *)

Threads == {1, 2}

InitRace ==
    /\ text \in InitText
    /\ image = InitImage
    /\ last = NoRequest
    /\ nreq = 0
    /\ thr = [t \in Threads |-> Idle]
    /\ base = text

RaceFrame == UNCHANGED <<image, last, nreq, base>>

\* /insert up to its return or to the point before upsert
race_insert_read(t) ==
    /\ thr[t].pc = "idle"
    /\ \E payload \in Payloads :
        LET prod_id == Get(payload, "id")
            existing == CollGet(text, TextKey(prod_id))
            r == [pc |-> "done", op |-> "insert", payload |-> payload,
                  existing |-> existing, outcome |-> "none"]
        IN thr' = [thr EXCEPT ![t] =
                    IF ~Truthy(prod_id)
                    THEN [r EXCEPT !.existing = <<>>, !.outcome = "id_required"]
                    ELSE IF insert_rejected(existing) THEN [r EXCEPT !.outcome = "exists"]
                    ELSE [r EXCEPT !.pc = "read"]]
    /\ text' = text
    /\ RaceFrame

\* /update up to its return or to the point before upsert
race_update_read(t) ==
    /\ thr[t].pc = "idle"
    /\ \E payload \in Payloads :
        LET prod_id == Get(payload, "id")
            existing == CollGet(text, TextKey(prod_id))
            r == [pc |-> "done", op |-> "update", payload |-> payload,
                  existing |-> existing, outcome |-> "none"]
        IN thr' = [thr EXCEPT ![t] =
                    IF ~Truthy(prod_id)
                    THEN [r EXCEPT !.existing = <<>>, !.outcome = "id_required"]
                    ELSE IF not_found(existing) THEN [r EXCEPT !.outcome = "not_found"]
                    ELSE [r EXCEPT !.pc = "read"]]
    /\ text' = text
    /\ RaceFrame

\* /delete up to its return or to the point before delete
race_delete_read(t) ==
    /\ thr[t].pc = "idle"
    /\ \E payload \in DeletePayloads :
        LET prod_id == Get(payload, "id")
            existing == CollGet(text, TextKey(prod_id))
            r == [pc |-> "done", op |-> "delete", payload |-> payload,
                  existing |-> existing, outcome |-> "none"]
        IN thr' = [thr EXCEPT ![t] =
                    IF ~Truthy(prod_id)
                    THEN [r EXCEPT !.existing = <<>>, !.outcome = "id_required"]
                    ELSE IF not_found(existing) THEN [r EXCEPT !.outcome = "not_found"]
                    ELSE [r EXCEPT !.pc = "read"]]
    /\ text' = text
    /\ RaceFrame

\* the rest of the handler: the write computed from what was read
race_write(t) ==
    /\ thr[t].pc = "read"
    /\ LET payload == thr[t].payload
           key == TextKey(Get(payload, "id"))
       IN \/ /\ thr[t].op = "insert"
             /\ text' = Upsert(text, key, doc_text(insert_meta(payload)), insert_meta(payload))
             /\ thr' = [thr EXCEPT ![t].pc = "done", ![t].outcome = "inserted"]
          \/ /\ thr[t].op = "update"
             /\ LET meta == update_meta(thr[t].existing[1], payload)
                IN text' = Upsert(text, key, doc_text(meta), meta)
             /\ thr' = [thr EXCEPT ![t].pc = "done", ![t].outcome = "updated"]
          \/ /\ thr[t].op = "delete"
             /\ text' = Delete(text, key)
             /\ thr' = [thr EXCEPT ![t].pc = "done", ![t].outcome = "deleted"]
    /\ RaceFrame

NextRace ==
    \E t \in Threads :
        \/ race_insert_read(t)
        \/ race_update_read(t)
        \/ race_delete_read(t)
        \/ race_write(t)

SpecRace == InitRace /\ [][NextRace]_vars

-----------------------------------------------------------------------------
(* Properties *)

Range(seq) == {seq[i] : i \in 1..Len(seq)}

MutationOps == {"insert", "update", "delete"}

\* the request just served is a mutation that carried an id
MutationWithId(r) == r.op \in MutationOps /\ Truthy(Get(r.payload, "id"))

\* the key a served mutation addressed
KeyOf(r) == TextKey(Get(r.payload, "id"))

\* this step serves a request
Serves == nreq' = nreq + 1

\* metadata says deleted
IsDeleted(meta) == Truthy(Get(meta, "deleted"))

\* the entries any text search on the collection can return
TextSearchResults(coll) ==
    UNION {Range(Flatten(search_text_items(hits, coll))) :
            hits \in UNION {QueryHits(coll, k) : k \in 1..MaxTopK}}

\* C1: after an Update(id) whose payload is exactly {id, deleted=true} on an
\* existing record, no text search made on the collection as that update
\* left it returns an entry of id.
C1_SoftDeleteHidesFromSearch ==
    (/\ last.op = "update"
     /\ last.outcome = "updated"
     /\ DOMAIN last.payload = {"id", "deleted"}
     /\ last.payload["deleted"] = PyTrue)
    => \A r \in TextSearchResults(text) : r.id # last.payload["id"]

\* is the entity an entry names flagged deleted in the text collection
EntityDeleted(r) ==
    /\ TextKey(r.id) \in DOMAIN text
    /\ IsDeleted(text[TextKey(r.id)].metadata)

ReadOps == {"list", "search", "image_search"}

C3_RanksDense ==
    last.op \in {"search", "image_search"} =>
        \A j \in 1..Len(last.results) : last.results[j].rank = j

\* C4: an Insert with an id answers "already exists" exactly when a record
\* of the id exists and is not flagged deleted, and then leaves the text
\* collection unchanged; otherwise the record under text-{id} becomes one
\* whose fields all come from the payload, with deleted=false.
C4_InsertStep ==
    (Serves /\ last'.op = "insert" /\ MutationWithId(last')) =>
        LET key == KeyOf(last')
            live == key \in DOMAIN text /\ ~IsDeleted(text[key].metadata)
        IN /\ last'.outcome = "exists" <=> live
           /\ live => text' = text
           /\ ~live =>
                /\ last'.outcome = "inserted"
                /\ key \in DOMAIN text'
                /\ Get(text'[key].metadata, "deleted") = PyFalse
                /\ \A k \in DOMAIN text'[key].metadata \ {"deleted"} :
                        text'[key].metadata[k] = Get(last'.payload, k)
                /\ \A k \in DOMAIN last'.payload \ {"oem_id", "deleted"} :
                        Get(text'[key].metadata, k) = last'.payload[k]

C4_Insert == [][C4_InsertStep]_vars

\* C4 witness: an Insert replaced a record that was flagged deleted.
C4_Witness ==
    /\ last.op = "insert"
    /\ last.outcome = "inserted"
    /\ last.existing # <<>>
    /\ IsDeleted(last.existing[1])
    /\ ~IsDeleted(text[KeyOf(last)].metadata)

\* C5: Update and HardDelete of an id without a text record answer "not
\* found" and change neither collection; HardDelete of an id with a record
\* removes it, and the next request for that id is "not found" if it is an
\* Update or a HardDelete and succeeds if it is an Insert.
C5_NotFoundStep ==
    /\ (Serves /\ last'.op \in {"update", "delete"} /\ MutationWithId(last')
          /\ KeyOf(last') \notin DOMAIN text)
        => (last'.outcome = "not_found" /\ text' = text /\ image' = image)
    /\ (Serves /\ last'.op = "delete" /\ MutationWithId(last')
          /\ KeyOf(last') \in DOMAIN text)
        => (last'.outcome = "deleted" /\ KeyOf(last') \notin DOMAIN text')
    /\ (Serves /\ last.op = "delete" /\ last.outcome = "deleted"
          /\ MutationWithId(last') /\ KeyOf(last') = KeyOf(last))
        => /\ last'.op \in {"update", "delete"} => last'.outcome = "not_found"
           /\ last'.op = "insert" =>
                (last'.outcome = "inserted" /\ KeyOf(last') \in DOMAIN text')

C5_NotFound == [][C5_NotFoundStep]_vars

\* C5 witness: a HardDelete removed an existing record and a further
\* request can follow.
C5_Witness ==
    /\ last.op = "delete"
    /\ last.outcome = "deleted"
    /\ last.existing # <<>>
    /\ KeyOf(last) \notin DOMAIN text
    /\ nreq < MaxOps

\* "empty" in the sense of the merge rule: an empty string or an absent
\* or null value
IsEmpty(v) == v \in {None, ""}

\* this step serves a successful Update
UpdateDone == Serves /\ last'.op = "update" /\ last'.outcome = "updated"

\* C6 (as stated): after an Update every field other than the deleted flag
\* holds the incoming value if that is non-empty and the previously stored
\* value otherwise, so an empty incoming value never blanks a stored one.
C6_MergeNonEmptyStep ==
    UpdateDone =>
        LET key == KeyOf(last')
            old == text[key].metadata
            new == text'[key].metadata
        IN \A k \in ((DOMAIN old) \cup (DOMAIN last'.payload)) \ {"deleted"} :
                Get(new, k) = IF ~IsEmpty(Get(last'.payload, k))
                              THEN last'.payload[k] ELSE Get(old, k)

C6_UpdateOverwritesStep ==
    UpdateDone =>
        LET key == KeyOf(last')
            old == text[key].metadata
            new == text'[key].metadata
        IN /\ DOMAIN new = (DOMAIN old) \cup (DOMAIN last'.payload) \cup {"deleted"}
           /\ \A k \in (DOMAIN new) \ {"deleted"} :
                new[k] = IF k \in DOMAIN last'.payload THEN last'.payload[k] ELSE old[k]

C7_DocumentAndFlag ==
    (last.op \in {"insert", "update"} /\ last.outcome \in {"inserted", "updated"}) =>
        LET e == text[KeyOf(last)]
            description == Get(e.metadata, "description")
            name == Get(e.metadata, "name")
        IN /\ Get(e.metadata, "deleted") = PyFalse
           /\ e.document = IF ~IsEmpty(description) THEN description
                           ELSE IF ~IsEmpty(name) THEN name
                           ELSE ""

\* C7 witness: a record inserted with name "Headphones" and description ""
\* (document "Headphones") was updated with description "Noise cancelling".
C7_Witness ==
    /\ last.op = "update"
    /\ last.outcome = "updated"
    /\ Get(last.existing[1], "name") = "Headphones"
    /\ Get(last.existing[1], "description") = ""
    /\ Get(last.existing[1], "deleted") = PyFalse
    /\ Get(last.payload, "description") = "Noise cancelling"
    /\ text[KeyOf(last)].document = "Noise cancelling"

\* one handler run alone on a collection
Call(op, payload, coll) ==
    IF op = "insert" THEN insert_product_call(payload, coll)
    ELSE IF op = "update" THEN update_product_call(payload, coll)
    ELSE permanent_delete_product_call(payload, coll)

\* C8: when two Insert/Update requests for the same id have both been
\* answered, the text collection and the two answers are those of running
\* the two handlers one after the other, in one of the two orders, on the
\* collection as it was before them.
C8_Serialized ==
    (/\ \A t \in Threads : thr[t].pc = "done" /\ thr[t].op \in {"insert", "update"}
     /\ Truthy(Get(thr[1].payload, "id"))
     /\ Get(thr[1].payload, "id") = Get(thr[2].payload, "id"))
    => \E o \in {<<1, 2>>, <<2, 1>>} :
          LET a == Call(thr[o[1]].op, thr[o[1]].payload, base)
              b == Call(thr[o[2]].op, thr[o[2]].payload, a.text)
          IN /\ text = b.text
             /\ thr[o[1]].outcome = a.outcome
             /\ thr[o[2]].outcome = b.outcome

\* C9: a step that serves Insert, Update or HardDelete, answered with
\* success or not, leaves the image collection and every text entry other
\* than text-{id} as they were.
C9_FrameStep ==
    (Serves /\ last'.op \in MutationOps) =>
        /\ image' = image
        /\ \A k \in ((DOMAIN text) \cup (DOMAIN text')) \ {KeyOf(last')} :
                /\ k \in DOMAIN text
                /\ k \in DOMAIN text'
                /\ text'[k] = text[k]

C9_Frame == [][C9_FrameStep]_vars

\* C9 witness: a mutation changed the entry of its id while the entry of
\* another id was present.
C9_Witness ==
    /\ last.op \in MutationOps
    /\ last.outcome \in {"inserted", "updated", "deleted"}
    /\ \E k \in DOMAIN text : k # KeyOf(last)

\* the positions of an image search whose hit reached build_result_from_meta
\* hydrated from a text record
Hydrated ==
    {i \in 1..Len(last.hits) :
        LET m == image[last.hits[i]].metadata
        IN /\ ~IsDeleted(m)
           /\ ~last.fails[i]
           /\ TextKey(Get(m, "id")) \in DOMAIN text}

\* C10 (as stated): for an image hit whose entity has a text record, every
\* hydrated field is the hit's own value when that is non-empty and the
\* text record's value otherwise.
C10_ImageValueWins ==
    last.op = "image_search" =>
        \A i \in Hydrated :
            LET m == image[last.hits[i]].metadata
                tmeta == text[TextKey(Get(m, "id"))].metadata
                h == hydrate(m, text, last.fails[i])
            IN \A k \in HydrateKeys :
                Get(h, k) = IF Truthy(Get(m, k)) THEN m[k] ELSE Get(tmeta, k)

\* C10 (amended): for an image hit whose entity has a text record, every
\* hydrated field is the text record's value, whatever the hit's own value;
\* the entry returned for the hit shows the text record's fields.
C10_TextValueWins ==
    last.op = "image_search" =>
        \A i \in Hydrated :
            LET m == image[last.hits[i]].metadata
                tmeta == text[TextKey(Get(m, "id"))].metadata
                h == hydrate(m, text, last.fails[i])
            IN /\ \A k \in HydrateKeys : Get(h, k) = Get(tmeta, k)
               /\ IsDeleted(tmeta) => i \notin Range(last.src)
               /\ \A j \in 1..Len(last.src) :
                    last.src[j] = i =>
                        /\ last.results[j].id = Get(tmeta, "id")
                        /\ last.results[j].oem_id = Get(tmeta, "oem_id")
                        /\ last.results[j].name = Get(tmeta, "name")
                        /\ last.results[j].specifications = Get(tmeta, "specifications")
                        /\ last.results[j].images = parse_images_from_meta(tmeta)

\* C10 witness: a hit whose own name is non-empty and differs from the
\* text record's name was returned under the text record's name.
C10_Witness ==
    /\ last.op = "image_search"
    /\ \E j \in 1..Len(last.src) :
        LET i == last.src[j]
            m == image[last.hits[i]].metadata
        IN /\ i \in Hydrated
           /\ Truthy(Get(m, "name"))
           /\ Get(m, "name") # Get(text[TextKey(Get(m, "id"))].metadata, "name")
           /\ last.results[j].name = Get(text[TextKey(Get(m, "id"))].metadata, "name")

\* the id a key of the image collection encodes: the part between the
\* prefix "image-" and the last "-"
RECURSIVE LastDash(_, _)
LastDash(s, i) ==
    IF i = 0 THEN 0 ELSE IF SubSeq(s, i, i) = "-" THEN i ELSE LastDash(s, i - 1)

IdOfImageKey(key) ==
    LET rest == SubSeq(key, 7, Len(key))
        cut == LastDash(rest, Len(rest))
    IN IF cut = 0 THEN rest ELSE SubSeq(rest, 1, cut - 1)

\* C11: an image hit with key image-{id}-{index} and empty own metadata,
\* for which a live text record of id exists and is read, is emitted with
\* the text record's fields.
C11_IdFromKey ==
    (last.op = "image_search" /\ last.outcome = "results") =>
        \A i \in 1..Len(last.hits) :
            LET key == TextKey(IdOfImageKey(last.hits[i]))
            IN (/\ image[last.hits[i]].metadata = EmptyDict
                /\ ~last.fails[i]
                /\ key \in DOMAIN text
                /\ ~IsDeleted(text[key].metadata))
               => \E j \in 1..Len(last.src) :
                    /\ last.src[j] = i
                    /\ last.results[j].id = Get(text[key].metadata, "id")
                    /\ last.results[j].name = Get(text[key].metadata, "name")
                    /\ last.results[j].images = parse_images_from_meta(text[key].metadata)

\* the fields of an emitted entry are those of the metadata m (and of the
\* hit's own document where m has no description)
ShowsMeta(r, m, doc) ==
    /\ r.id = Get(m, "id")
    /\ r.oem_id = Get(m, "oem_id")
    /\ r.name = Get(m, "name")
    /\ r.description = PyOr(Get(m, "description"), PyOr(doc, ""))
    /\ r.images = parse_images_from_meta(m)
    /\ r.specifications = Get(m, "specifications")

\* the entry position of hit i, or 0 if the hit was not emitted
EntryOf(i) ==
    IF i \in Range(last.src) THEN CHOOSE j \in 1..Len(last.src) : last.src[j] = i ELSE 0

\* C12: an image search answers with a result list whatever lookups failed;
\* a hit whose text lookup failed is emitted with its own metadata unless
\* that metadata has deleted=true, and every other hit is processed as in
\* the same search without any failure.
C12_LookupFailureLocal ==
    (last.op = "image_search" /\ last.hits # <<>>) =>
        /\ last.outcome = "results"
        /\ \A i \in 1..Len(last.hits) :
            LET h == image[last.hits[i]]
                nofail == [n \in 1..Len(last.hits) |-> FALSE]
                clean == search_image_items(last.hits, image, text, nofail)
            IN IF last.fails[i]
               THEN IF IsDeleted(h.metadata) THEN EntryOf(i) = 0
                    ELSE /\ EntryOf(i) # 0
                         /\ ShowsMeta(last.results[EntryOf(i)], h.metadata, h.document)
               ELSE IF clean[i] = <<>> THEN EntryOf(i) = 0
                    ELSE /\ EntryOf(i) # 0
                         /\ last.results[EntryOf(i)] = clean[i][1]

\* C12 witness: of two hits, the lookup of one failed and it was emitted
\* with its own name although its text record holds another; the lookup of
\* the other succeeded.
C12_Witness ==
    /\ last.op = "image_search"
    /\ Len(last.hits) = 2
    /\ \E i \in 1..2 :
        LET m == image[last.hits[i]].metadata
        IN /\ last.fails[i]
           /\ ~last.fails[3 - i]
           /\ TextKey(Get(m, "id")) \in DOMAIN text
           /\ Get(text[TextKey(Get(m, "id"))].metadata, "name") # Get(m, "name")
           /\ EntryOf(i) # 0
           /\ last.results[EntryOf(i)].name = Get(m, "name")

\* the runs of Spec that start from a text collection without flagged records
InitClean ==
    /\ Init
    /\ \A k \in DOMAIN text : ~IsDeleted(text[k].metadata)

SpecClean == InitClean /\ [][Next]_vars

\* C13: from a text collection in which no record has deleted=true, no
\* sequence of Insert, Update and HardDelete requests, whatever their
\* payloads, leaves a record with deleted=true; so an accepted Insert never
\* found a record of its id.
C13_NeverFlagged ==
    /\ \A k \in DOMAIN text : ~IsDeleted(text[k].metadata)
    /\ (last.op = "insert" /\ last.outcome = "inserted") => last.existing = <<>>

\* C13 witness: an Update whose payload carries deleted=true was applied
\* and the record it wrote is not flagged.
C13_Witness ==
    /\ last.op = "update"
    /\ last.outcome = "updated"
    /\ Get(last.payload, "deleted") = PyTrue
    /\ KeyOf(last) \in DOMAIN text
    /\ ~IsDeleted(text[KeyOf(last)].metadata)

\* the entries any image search on the two collections can return for the
\* hit with the given key, one sequence (empty or one entry) per search
ImageSearchItemsOf(key) ==
    UNION {UNION {{search_image_items(hits, image, text, fails)[i] :
                        i \in {n \in 1..Len(hits) : hits[n] = key}} :
                    fails \in [1..Len(hits) -> BOOLEAN]} :
            hits \in UNION {QueryHits(image, k) : k \in 1..MaxTopK}}

\* the image records that name id and are not flagged in their own metadata
OrphansOf(id) ==
    {key \in DOMAIN image :
        Get(image[key].metadata, "id") = id /\ ~IsDeleted(image[key].metadata)}

\* C14: after a successful HardDelete(id), every image search on the
\* collections as the delete left them emits each hit whose own metadata
\* names id and is not flagged, with the fields of that own metadata; and
\* whenever an image search is served while id has no text record, such a
\* hit is in its results with its own fields.
C14_OrphansStayVisible ==
    /\ (last.op = "delete" /\ last.outcome = "deleted") =>
            \A key \in OrphansOf(last.payload["id"]) :
                \A item \in ImageSearchItemsOf(key) :
                    /\ item # <<>>
                    /\ ShowsMeta(item[1], image[key].metadata, image[key].document)
    /\ (last.op = "image_search") =>
            \A i \in 1..Len(last.hits) :
                LET h == image[last.hits[i]]
                IN (/\ ~IsDeleted(h.metadata)
                    /\ Truthy(Get(h.metadata, "id"))
                    /\ TextKey(Get(h.metadata, "id")) \notin DOMAIN text)
                   => /\ EntryOf(i) # 0
                      /\ ShowsMeta(last.results[EntryOf(i)], h.metadata, h.document)

\* C14 witness: a HardDelete removed the text record of an id that an
\* unflagged image record names, and an image search can follow.
C14_Witness ==
    /\ last.op = "delete"
    /\ last.outcome = "deleted"
    /\ OrphansOf(last.payload["id"]) # {}
    /\ KeyOf(last) \notin DOMAIN text
    /\ nreq < MaxOps

====
